---- MODULE Spec2Model ----
(***************************************************************************)
(* SOFiSTiK grammar builder: src/build/build.py (per-command scoped rules) *)
(* and src/build.py (flat variant).                                        *)
(*                                                                         *)
(* Strings are sequences of one-character strings.  A regular expression   *)
(* pattern is a sequence of pattern tokens: a character, or one of the     *)
(* syntax tokens "(?:", ")" and "|".  Keywords are made of word characters *)
(* (the keyword sheets hold SOFiSTiK identifiers); regex metacharacters in *)
(* keywords are the documented limitation of the generator and are not     *)
(* part of the keyword alphabet.                                           *)
(***************************************************************************)
EXTENDS Integers, Sequences, FiniteSets, TLC

VARIABLES
    arg_keyword_list, \* optimize_pattern: the argument of the call
    opt_pc,         \* optimize_pattern: "call", "returned", "matched"
    ret_pattern,    \* optimize_pattern: the returned pattern
    token,          \* the text the returned pattern is applied to
    whole_match,    \* whether (?i)(?<!\w)(pattern)(?!\w) tags the whole token
    first_end,      \* where (?i)(?:pattern) stops on the token (-1: no match)
    build_pc,       \* main: the statement the build is at
    variant,        \* the script run: "scoped" (build/build.py), "flat" (build.py)
    error,          \* the exception that ended the run, or "none"
    steps,          \* the steps of main done so far, in order
    sheets_read,    \* load_keywords: the sheet names iterated so far
    column_index,   \* load_keywords: enumerate(row) index of the next cell
    cells_read,     \* the number of cells read so far
    keywords_by_module,          \* load_keywords: the table being built
    current_command_subkeywords, \* load_keywords: the list appended to
    sheet_rows,     \* the rows of the current sheet read so far
    orphan_cells,   \* populated cells read before any command of their sheet
    keywords_json,  \* assets/keywords.json: whether written, and the table saved
    modules_done,   \* generate_module_patterns: the modules iterated so far
    module_begin_end_patterns,   \* generate_module_patterns: the region rules
    module_repository_patterns,  \* generate_module_patterns: the repository entries
    commands_regex_pattern,      \* generate_module_patterns: of the last module
    rerun_repository_patterns,   \* the repository entries of a second run
    complete_grammar,            \* generate_grammar: whether returned, and the text
    grammar_file,   \* grammars/sofistik.cson: "previous", "truncated" or "written", and the text
    tm_text,        \* the lines of the program text tokenized so far
    tm_before,      \* the rule stack before the last line
    tm_stack,       \* the rule stack after the last line
    tm_tags,        \* the tags given on the last line
    tm_pops         \* the regions ended on the last line, and where

optVars == <<arg_keyword_list, opt_pc, ret_pattern, token, whole_match, first_end>>
loadVars == <<sheets_read, column_index, cells_read, keywords_by_module,
              current_command_subkeywords, sheet_rows, orphan_cells>>
buildVars == <<build_pc, variant, error, steps>>
genVars == <<keywords_json, modules_done, module_begin_end_patterns,
             module_repository_patterns, commands_regex_pattern,
             rerun_repository_patterns, complete_grammar, grammar_file>>
tokVars == <<tm_text, tm_before, tm_stack, tm_tags, tm_pops>>
vars == <<optVars, loadVars, buildVars, genVars, tokVars>>

----------------------------------------------------------------------------
(* Bounds *)

\* The total number of characters of a keyword list given to optimize_pattern.
MaxChars == 4
\* The length of a token a pattern is applied to.
MaxTokenLen == 3
\* The number of cells of the workbook, over all its sheets.
MaxCells == 3
\* The number of lines of a program text.
MaxLines == 3

----------------------------------------------------------------------------
(* Characters and strings *)

\* The characters keywords and tokens are made of.
Alphabet == {"A", "a", "B"}

\* str.upper() on one character.
Upper(c) ==
    CASE c = "a" -> "A"
      [] c = "b" -> "B"
      [] c = "p" -> "P"
      [] OTHER -> c

\* ord(c): the code point Python orders characters by.
CodePoint(c) ==
    CASE c = " " -> 32
      [] c = "$" -> 36
      [] c = "+" -> 43
      [] c = "-" -> 45
      [] c = ";" -> 59
      [] c = "A" -> 65
      [] c = "B" -> 66
      [] c = "C" -> 67
      [] c = "G" -> 71
      [] c = "I" -> 73
      [] c = "M" -> 77
      [] c = "N" -> 78
      [] c = "O" -> 79
      [] c = "P" -> 80
      [] c = "R" -> 82
      [] c = "S" -> 83
      [] c = "X" -> 88
      [] c = "a" -> 97
      [] c = "b" -> 98
      [] c = "p" -> 112
      [] OTHER -> 0

\* x < y on Python strings: lexicographic by code point.
RECURSIVE StrLess(_, _)
StrLess(x, y) ==
    IF y = <<>> THEN FALSE
    ELSE IF x = <<>> THEN TRUE
    ELSE IF Head(x) = Head(y) THEN StrLess(Tail(x), Tail(y))
    ELSE CodePoint(Head(x)) < CodePoint(Head(y))

\* The strings over S of length exactly n.
RECURSIVE StringsOfLen(_, _)
StringsOfLen(S, n) ==
    IF n = 0 THEN {<<>>}
    ELSE {<<c>> \o s : c \in S, s \in StringsOfLen(S, n - 1)}

\* Case folding of a string, as (?i) compares.
Fold(s) == [i \in 1..Len(s) |-> Upper(s[i])]

\* Whether x is a proper prefix of y.
ProperPrefix(x, y) == Len(x) < Len(y) /\ SubSeq(y, 1, Len(x)) = x

\* "sep".join(parts) for a one-token separator.
RECURSIVE Join(_, _)
Join(parts, sep) ==
    IF parts = <<>> THEN <<>>
    ELSE IF Len(parts) = 1 THEN parts[1]
    ELSE parts[1] \o <<sep>> \o Join(Tail(parts), sep)

----------------------------------------------------------------------------
(* sorted(..., key=lambda x: (-len(x), x)): Python's sort is stable *)

\* A sort key that forgets the tie-break on the text.
KeyLessLengthOnly(x, y) == Len(x) > Len(y)

\* A sort key that puts the shortest first.
KeyLessShortestFirst(x, y) ==
    \/ Len(x) < Len(y)
    \/ Len(x) = Len(y) /\ StrLess(x, y)

\* key(x) < key(y) for key = lambda x: (-len(x), x): longest first, then
\* by code point.
KeyLess(x, y) ==
    \/ Len(x) > Len(y)
    \/ Len(x) = Len(y) /\ StrLess(x, y)

\* The place x takes in an already sorted list: behind every element whose
\* key is not greater (equal keys keep their order).
RECURSIVE InsertSorted(_, _)
InsertSorted(x, sorted) ==
    IF sorted = <<>> THEN <<x>>
    ELSE IF KeyLess(x, Head(sorted)) THEN <<x>> \o sorted
    ELSE <<Head(sorted)>> \o InsertSorted(x, Tail(sorted))

RECURSIVE SortedLongestFirst(_)
SortedLongestFirst(list) ==
    IF list = <<>> THEN <<>>
    ELSE InsertSorted(list[Len(list)],
                      SortedLongestFirst(SubSeq(list, 1, Len(list) - 1)))

\* sorted(keys) for one-character keys: by code point.  The keys of a dict
\* are distinct, so the result does not depend on the order they come in.
RECURSIVE SortedChars(_)
SortedChars(S) ==
    IF S = {} THEN <<>>
    ELSE LET c == CHOOSE c \in S : \A d \in S : CodePoint(c) <= CodePoint(d)
         IN  <<c>> \o SortedChars(S \ {c})

----------------------------------------------------------------------------
(* optimize_pattern *)

\* first_character = keyword[0].upper()
first_character(keyword) == Upper(keyword[1])

\* The keys of keywords_grouped_by_first_char.
GroupKeys(keyword_list) ==
    {first_character(keyword_list[i]) : i \in 1..Len(keyword_list)}

\* keywords_grouped_by_first_char after the sort of every group: each key
\* holds its keywords in the order of the list, then sorted longest first.
keywords_grouped_by_first_char(keyword_list) ==
    [character \in GroupKeys(keyword_list) |->
        SortedLongestFirst(
            SelectSeq(keyword_list, LAMBDA k : first_character(k) = character))]

\* A suffix that keeps the first character.
WholeWord(word) == word

\* word[1:]
Suffix(word) == Tail(word)

\* '|'.join(word[1:] for word in word_list)
word_suffixes(word_list) ==
    Join([i \in 1..Len(word_list) |-> Suffix(word_list[i])], "|")

\* One entry of pattern_parts: the keyword itself for a group of one, else
\* (?:C(?:suffixes)).
pattern_part(character, word_list) ==
    IF Len(word_list) = 1
    THEN word_list[1]
    ELSE <<"(?:", character, "(?:">> \o word_suffixes(word_list) \o <<")", ")">>

\* The groups in the order the dict hands them out.
UnsortedGroupOrder(iteration_order) == iteration_order

\* sorted(keywords_grouped_by_first_char.keys()), whatever order the dict
\* iterates in.
SortedGroupOrder(iteration_order) ==
    SortedChars({iteration_order[i] : i \in 1..Len(iteration_order)})

\* optimize_pattern(keyword_list), with the dict iterating its keys in
\* iteration_order.
optimize_pattern_iterating(keyword_list, iteration_order) ==
    IF keyword_list = <<>>
    THEN <<>>
    ELSE LET groups == keywords_grouped_by_first_char(keyword_list)
             keys == SortedGroupOrder(iteration_order)
         IN  IF Cardinality(DOMAIN groups) = 1
             THEN Join(groups[iteration_order[1]], "|")
             ELSE Join([i \in 1..Len(keys) |->
                           pattern_part(keys[i], groups[keys[i]])], "|")

\* The orders a set can be iterated in.
RECURSIVE Orders(_)
Orders(S) ==
    IF S = {} THEN {<<>>}
    ELSE UNION {{<<x>> \o o : o \in Orders(S \ {x})} : x \in S}

\* The keys in the order of their insertion (a dict iterates in that order).
RECURSIVE InsertionOrder(_)
InsertionOrder(keyword_list) ==
    IF keyword_list = <<>> THEN <<>>
    ELSE LET before == InsertionOrder(SubSeq(keyword_list, 1, Len(keyword_list) - 1))
             c == first_character(keyword_list[Len(keyword_list)])
         IN  IF \E i \in 1..Len(before) : before[i] = c
             THEN before
             ELSE Append(before, c)

\* optimize_pattern(keyword_list)
optimize_pattern(keyword_list) ==
    optimize_pattern_iterating(keyword_list, InsertionOrder(keyword_list))

----------------------------------------------------------------------------
(* The regular expressions the patterns are: what the matching engine does  *)
(* with a pattern, case-insensitively ((?i) heads every generated regex)    *)

\* \w
IsWordChar(c) == c \notin {" ", ";", "$", "+", "-"}

\* The index of the ")" that closes the group opened at index i.
RECURSIVE CloseFrom(_, _, _)
CloseFrom(p, i, depth) ==
    IF i > Len(p) THEN Len(p) + 1
    ELSE IF p[i] = "(?:" THEN CloseFrom(p, i + 1, depth + 1)
    ELSE IF p[i] = ")"
         THEN IF depth = 1 THEN i ELSE CloseFrom(p, i + 1, depth - 1)
    ELSE CloseFrom(p, i + 1, depth)

\* The alternatives of p: p split at every "|" outside a group.
RECURSIVE SplitTop(_, _, _, _)
SplitTop(p, i, start, depth) ==
    IF i > Len(p) THEN <<SubSeq(p, start, Len(p))>>
    ELSE IF p[i] = "(?:" THEN SplitTop(p, i + 1, start, depth + 1)
    ELSE IF p[i] = ")" THEN SplitTop(p, i + 1, start, depth - 1)
    ELSE IF p[i] = "|" /\ depth = 0
         THEN <<SubSeq(p, start, i - 1)>> \o SplitTop(p, i + 1, i + 1, 0)
    ELSE SplitTop(p, i + 1, start, depth)

Alternatives(p) == SplitTop(p, 1, 1, 0)

\* Where a match of p that starts after j characters of text can end, in the
\* order a backtracking engine tries: the alternatives left to right.
RECURSIVE EndsSeq(_, _, _)
RECURSIVE EndsAlt(_, _, _)
RECURSIVE EndsCat(_, _, _)
RECURSIVE EndsThen(_, _, _)
EndsSeq(p, text, j) == EndsAlt(Alternatives(p), text, j)

EndsAlt(alts, text, j) ==
    IF alts = <<>> THEN <<>>
    ELSE EndsCat(Head(alts), text, j) \o EndsAlt(Tail(alts), text, j)

EndsCat(a, text, j) ==
    IF a = <<>> THEN <<j>>
    ELSE IF Head(a) = "(?:"
         THEN LET k == CloseFrom(a, 2, 1)
              IN  EndsThen(EndsSeq(SubSeq(a, 2, k - 1), text, j),
                           SubSeq(a, k + 1, Len(a)), text)
    ELSE IF j < Len(text) /\ Upper(text[j + 1]) = Upper(Head(a))
         THEN EndsCat(Tail(a), text, j + 1)
    ELSE <<>>

EndsThen(ends, rest, text) ==
    IF ends = <<>> THEN <<>>
    ELSE EndsCat(rest, text, Head(ends)) \o EndsThen(Tail(ends), rest, text)

\* (?i)(?:p) tried at offset j with nothing behind it: the first end found,
\* or -1.
FirstEnd(p, text, j) ==
    LET ends == EndsSeq(p, text, j)
    IN  IF ends = <<>> THEN -1 ELSE Head(ends)

\* The first element of ends that no word character follows, or -1.
RECURSIVE FirstBounded(_, _)
FirstBounded(ends, text) ==
    IF ends = <<>> THEN -1
    ELSE IF Head(ends) = Len(text) \/ ~IsWordChar(text[Head(ends) + 1])
         THEN Head(ends)
    ELSE FirstBounded(Tail(ends), text)

\* A whole-token match that forgets the look-ahead (?!\w).
WholeTokenEndNoLookahead(p, text, j) ==
    IF j > 0 /\ IsWordChar(text[j]) THEN -1 ELSE FirstEnd(p, text, j)

\* (?i)(?<!\w)(p)(?!\w) tried at offset j: the end of the match, or -1.
WholeTokenEnd(p, text, j) ==
    IF j > 0 /\ IsWordChar(text[j]) THEN -1
    ELSE FirstBounded(EndsSeq(p, text, j), text)

\* The first span of text, from offset from on, the regex (?i)(?<!\w)(p)(?!\w)
\* matches: <<start, end>>, or <<-1, -1>>.
RECURSIVE WholeTokenSpan(_, _, _)
WholeTokenSpan(p, text, from) ==
    IF from > Len(text) THEN <<-1, -1>>
    ELSE LET e == WholeTokenEnd(p, text, from)
         IN  IF e >= 0 THEN <<from, e>> ELSE WholeTokenSpan(p, text, from + 1)

----------------------------------------------------------------------------
(* load_keywords: the table, a dict of dicts of lists, in insertion order *)

\* Cell values of openpyxl with values_only=True: None for an empty cell, a
\* str, or a number.  None and the number are written as one-token strings
\* no text cell can hold.
NoneCell == <<"None">>
EmptyString == <<>>
NumberCell == <<"int:7">>

\* isinstance(cell_value, str)
IsStr(cell_value) == cell_value \notin {NoneCell, NumberCell}

\* Sheet names of the workbook.
BASIC == <<"B", "A", "S", "I", "C">>
SheetNames == {BASIC, <<"M">>, <<"N">>}

\* The values a cell of the workbook can hold.
CellValues == {NoneCell, EmptyString, <<"A">>, <<"B">>, NumberCell}

\* The index of key in a dict (a sequence of records with field key), or 0.
IndexOf(dict, key) ==
    IF \E i \in 1..Len(dict) : dict[i].key = key
    THEN CHOOSE i \in 1..Len(dict) : dict[i].key = key
    ELSE 0

\* dict[key] = value: a new key goes last, a key already there keeps its
\* place and gets the new value.
DictSet(dict, key, value) ==
    IF IndexOf(dict, key) = 0
    THEN Append(dict, [key |-> key, value |-> value])
    ELSE [dict EXCEPT ![IndexOf(dict, key)].value = value]

\* list(dict.keys())
DictKeys(dict) == [i \in 1..Len(dict) |-> dict[i].key]

\* A skip test that forgets the empty string.
IsSkippedNoneOnly(cell_value) == cell_value = NoneCell

\* The cell is skipped: `cell_value is None or (isinstance(cell_value, str)
\* and len(cell_value) == 0)`.
IsSkipped(cell_value) ==
    \/ cell_value = NoneCell
    \/ IsStr(cell_value) /\ Len(cell_value) = 0

\* A reading that takes the first populated cell of a row for the command.
IsCommandCellFirstPopulated(index, cells_before) ==
    \A i \in 1..Len(cells_before) : IsSkipped(cells_before[i])

\* `column_index == 0`: the cell names a command.
IsCommandCell(index, cells_before) == index = 0

\* What current_command_subkeywords refers to: the list of a command (of
\* the sheet numbered module, under the key command), or a list no dict
\* holds, with what was appended to it.
DetachedList(list) ==
    [attached |-> FALSE, module |-> 0, command |-> <<>>, list |-> list]
AttachedList(module, command) ==
    [attached |-> TRUE, module |-> module, command |-> command, list |-> <<>>]

\* A sheet start that leaves the list of the sheet before in place.
KeepCurrentList(current) == current

\* `current_command_subkeywords = []` at the start of every sheet.
FreshList(current) == DetachedList(<<>>)

\* `current_command_subkeywords = module_keywords[cell_value] = []`
StartCommand(table, cell_value) ==
    [table EXCEPT ![Len(table)].value = DictSet(@, cell_value, <<>>)]

\* `current_command_subkeywords.append(cell_value)`: the table after it.
AppendToCurrent(table, current, cell_value) ==
    IF current.attached
    THEN LET k == IndexOf(table[current.module].value, current.command)
         IN  [table EXCEPT ![current.module].value[k].value = Append(@, cell_value)]
    ELSE table

\* ... and the current list after it.
CurrentAfterAppend(current, cell_value) ==
    IF current.attached
    THEN current
    ELSE [current EXCEPT !.list = Append(@, cell_value)]

\* The cells of the row being read.
CurrentRow == IF sheet_rows = <<>> THEN <<>> ELSE sheet_rows[Len(sheet_rows)]

\* Whether a command cell was read in the sheet being read.
RECURSIVE AnyCommandCell(_)
AnyCommandCell(rows) ==
    IF rows = <<>> THEN FALSE
    ELSE \/ (Head(rows) # <<>> /\ ~IsSkipped(Head(rows)[1]))
         \/ AnyCommandCell(Tail(rows))

LoadIdle ==
    /\ sheets_read = <<>>
    /\ column_index = 0
    /\ cells_read = 0
    /\ keywords_by_module = <<>>
    /\ current_command_subkeywords = DetachedList(<<>>)
    /\ sheet_rows = <<>>
    /\ orphan_cells = <<>>

\* openpyxl.load_workbook: the workbook is there.
LoadWorkbook ==
    /\ build_pc = "start"
    /\ build_pc' = "sheets"
    /\ UNCHANGED <<variant, error, steps, loadVars, optVars, genVars>>
    /\ UNCHANGED tokVars

\* openpyxl.load_workbook: keywords.xlsx is missing or unreadable.
LoadWorkbookFails ==
    /\ build_pc = "start"
    /\ build_pc' = "failed"
    /\ error' = "FileNotFoundError"
    /\ UNCHANGED <<variant, steps, loadVars, optVars, genVars>>
    /\ UNCHANGED tokVars

\* `for module_name in workbook.sheetnames`: the next sheet.
BeginSheet ==
    /\ build_pc = "sheets"
    /\ \E module_name \in SheetNames :
          /\ \A i \in 1..Len(sheets_read) : sheets_read[i] # module_name
          /\ sheets_read' = Append(sheets_read, module_name)
          /\ keywords_by_module' = DictSet(keywords_by_module, module_name, <<>>)
    /\ current_command_subkeywords' = FreshList(current_command_subkeywords)
    /\ sheet_rows' = <<>>
    /\ column_index' = 0
    /\ build_pc' = "cells"
    /\ UNCHANGED <<variant, error, steps, cells_read, orphan_cells, optVars, genVars>>
    /\ UNCHANGED tokVars

\* `for column_index, cell_value in enumerate(row)`: one cell.
ReadCell ==
    /\ build_pc = "cells"
    /\ cells_read < MaxCells
    /\ \E cell_value \in CellValues :
          /\ sheet_rows' = IF column_index = 0
                           THEN Append(sheet_rows, <<cell_value>>)
                           ELSE [sheet_rows EXCEPT ![Len(sheet_rows)] = Append(@, cell_value)]
          /\ IF IsSkipped(cell_value)
             THEN UNCHANGED <<keywords_by_module, current_command_subkeywords, orphan_cells>>
             ELSE IF IsCommandCell(column_index, IF column_index = 0 THEN <<>> ELSE CurrentRow)
             THEN /\ keywords_by_module' = StartCommand(keywords_by_module, cell_value)
                  /\ current_command_subkeywords' =
                        AttachedList(Len(keywords_by_module), cell_value)
                  /\ UNCHANGED orphan_cells
             ELSE /\ keywords_by_module' =
                        AppendToCurrent(keywords_by_module, current_command_subkeywords, cell_value)
                  /\ current_command_subkeywords' =
                        CurrentAfterAppend(current_command_subkeywords, cell_value)
                  /\ orphan_cells' = IF AnyCommandCell(sheet_rows)
                                     THEN orphan_cells
                                     ELSE Append(orphan_cells, cell_value)
    /\ column_index' = column_index + 1
    /\ cells_read' = cells_read + 1
    /\ UNCHANGED <<build_pc, variant, error, steps, sheets_read, optVars, genVars>>
    /\ UNCHANGED tokVars

\* The row is exhausted: `for row in worksheet.iter_rows(...)` goes on.
EndRow ==
    /\ build_pc = "cells"
    /\ column_index > 0
    /\ column_index' = 0
    /\ UNCHANGED <<build_pc, variant, error, steps, sheets_read, cells_read,
                   keywords_by_module, current_command_subkeywords, sheet_rows,
                   orphan_cells, optVars, genVars>>
    /\ UNCHANGED tokVars

\* The rows of the sheet are exhausted.
EndSheet ==
    /\ build_pc = "cells"
    /\ column_index = 0
    /\ build_pc' = "sheets"
    /\ UNCHANGED <<variant, error, steps, loadVars, optVars, genVars>>
    /\ UNCHANGED tokVars

\* `return keywords_by_module`
ReturnKeywords ==
    /\ build_pc = "sheets"
    /\ build_pc' = "save"
    /\ steps' = Append(steps, "load")
    /\ sheet_rows' = <<>>
    /\ UNCHANGED <<variant, error, sheets_read, column_index, cells_read,
                   keywords_by_module, current_command_subkeywords, orphan_cells, optVars, genVars>>
    /\ UNCHANGED tokVars

----------------------------------------------------------------------------
(* generate_module_patterns and generate_grammar *)

\* str.lower() on one character of a sheet name.
Lower(c) ==
    CASE c = "A" -> "a"
      [] c = "B" -> "b"
      [] c = "C" -> "c"
      [] c = "I" -> "i"
      [] c = "M" -> "m"
      [] c = "N" -> "n"
      [] c = "S" -> "s"
      [] OTHER -> c

\* module_name.lower()
LowerStr(name) == [i \in 1..Len(name) |-> Lower(name[i])]

\* The elements of S in the order order lists them: the order a set, or the
\* keys of a dict, come out in one run.
InOrder(S, order) == SelectSeq(order, LAMBDA x : x \in S)

\* The set of the elements of a list.
Range(list) == {list[i] : i \in 1..Len(list)}

\* The strings cells hold, and their first characters: what the unordered
\* collections of the generators hold.
CellStrings == {v \in CellValues : IsStr(v) /\ v # EmptyString}
FirstCharacters == {first_character(v) : v \in CellStrings}

\* `sorted(..., key=lambda x: (-len(x), x))` raises TypeError on a number:
\* len() of an int.
SortRaises(list) == \E i \in 1..Len(list) : ~IsStr(list[i])

\* A module filter that lets every module through.
IsExcludedNever(module_name) == FALSE

\* `if module_name == 'BASIC': continue`
IsExcluded(module_name) == module_name = BASIC

\* The module begin/end rule of lines 110-124: the text is fixed but for the
\* module name in the begin regex, in the scope names and in the include.
ModuleBeginEndPattern(module_name) ==
    [begin_module |-> module_name,
     scope |-> LowerStr(module_name),
     include |-> module_name]

\* A rule for a command that ignores its sub-keywords.
CommandRuleAlwaysMatch(command_name, command_subkeywords, commands_pattern, key_order) ==
    [type |-> "match", command |-> command_name]

\* The rule of one command (lines 142-174): a begin/end region with the
\* sub-keyword match of its own list, or a direct match when the list is
\* empty.
CommandRule(command_name, command_subkeywords, commands_pattern, key_order) ==
    IF command_subkeywords # <<>>
    THEN LET sorted_subkeywords == SortedLongestFirst(command_subkeywords)
         IN  [type |-> "begin_end",
              command |-> command_name,
              end_commands |-> commands_pattern,
              subkeywords |->
                  optimize_pattern_iterating(
                      sorted_subkeywords,
                      InOrder(GroupKeys(sorted_subkeywords), key_order))]
    ELSE [type |-> "match", command |-> command_name]

\* commands_regex_pattern of a module (lines 127-133).
CommandsRegexPattern(module_commands, key_order) ==
    LET sorted_commands == SortedLongestFirst(DictKeys(module_commands))
    IN  optimize_pattern_iterating(
            sorted_commands, InOrder(GroupKeys(sorted_commands), key_order))

\* repository_entry of a module (lines 136-180), build/build.py.
RepositoryEntry(module_name, module_commands, key_order) ==
    [name |-> module_name,
     patterns |->
        [i \in 1..Len(module_commands) |->
            CommandRule(module_commands[i].key, module_commands[i].value,
                        CommandsRegexPattern(module_commands, key_order),
                        key_order)]]

\* Whether generating the module raises (build/build.py): a number among
\* the commands, or in a non-empty sub-keyword list.
ModuleRaises(module_commands) ==
    \/ SortRaises(DictKeys(module_commands))
    \/ \E i \in 1..Len(module_commands) : SortRaises(module_commands[i].value)

\* all_subkeywords of the flat variant (build.py lines 45-49).
all_subkeywords(module_commands) ==
    UNION {Range(module_commands[i].value) : i \in 1..Len(module_commands)}

\* The repository entry of the flat variant (build.py lines 43-74): one match
\* for all commands, one for all sub-keywords of the module, each the sorted
\* set joined with "|".  set_order is the order the sets iterate in.
FlatRepositoryEntry(module_name, module_commands, set_order) ==
    [name |-> module_name,
     cmds_pattern |->
        Join(SortedLongestFirst(InOrder(Range(DictKeys(module_commands)), set_order)), "|"),
     subcmds_pattern |->
        Join(SortedLongestFirst(InOrder(all_subkeywords(module_commands), set_order)), "|")]

\* generate_grammar: header + module rules + base repository + module
\* repository entries; the two fixed texts are named, not spelled out.
GrammarText(module_patterns, repository_patterns) ==
    [header |-> "grammar_header",
     module_patterns |-> module_patterns,
     repository_base |-> "repository_base_patterns",
     repository_patterns |-> repository_patterns]

\* The state of a file, or of a value not yet computed.
NoGrammar == GrammarText(<<>>, <<>>)
PreviousFile == [state |-> "previous", text |-> NoGrammar]
TruncatedFile == [state |-> "truncated", text |-> NoGrammar]
WrittenFile(text) == [state |-> "written", text |-> text]

GenIdle ==
    /\ keywords_json = [written |-> FALSE, data |-> <<>>]
    /\ modules_done = 0
    /\ module_begin_end_patterns = <<>>
    /\ module_repository_patterns = <<>>
    /\ commands_regex_pattern = <<>>
    /\ rerun_repository_patterns = <<>>
    /\ complete_grammar = [returned |-> FALSE, text |-> NoGrammar]
    /\ grammar_file = PreviousFile

\* save_keywords_json(keywords_data)
SaveKeywordsJson ==
    /\ build_pc = "save"
    /\ keywords_json' = [written |-> TRUE, data |-> keywords_by_module]
    /\ steps' = Append(steps, "save")
    /\ build_pc' = "generate"
    /\ UNCHANGED <<variant, error, loadVars, optVars, modules_done,
                   module_begin_end_patterns, module_repository_patterns,
                   commands_regex_pattern, rerun_repository_patterns,
                   complete_grammar, grammar_file>>
    /\ UNCHANGED tokVars

\* The module the loop `for module_name, module_commands in
\* keywords_data.items()` is about to take.
NextModule == keywords_by_module[modules_done + 1]

\* `if module_name == 'BASIC': continue`
SkipModule ==
    /\ build_pc = "generate"
    /\ modules_done < Len(keywords_by_module)
    /\ IsExcluded(NextModule.key)
    /\ modules_done' = modules_done + 1
    /\ UNCHANGED <<buildVars, loadVars, optVars, keywords_json,
                   module_begin_end_patterns, module_repository_patterns,
                   commands_regex_pattern, rerun_repository_patterns,
                   complete_grammar, grammar_file>>
    /\ UNCHANGED tokVars

\* One iteration of the loop raises TypeError: the run ends there.
GenerateModuleFails ==
    /\ build_pc = "generate"
    /\ modules_done < Len(keywords_by_module)
    /\ ~IsExcluded(NextModule.key)
    /\ ModuleRaises(NextModule.value)
    /\ build_pc' = "failed"
    /\ error' = "TypeError"
    /\ UNCHANGED <<variant, steps, loadVars, optVars, genVars>>
    /\ UNCHANGED tokVars

\* One iteration of the loop of build/build.py: the module's region rule and
\* its repository entry are appended.  A second run over the same table is
\* made beside it, its dicts iterating in an order of their own.
GenerateModule ==
    /\ build_pc = "generate"
    /\ variant = "scoped"
    /\ modules_done < Len(keywords_by_module)
    /\ ~IsExcluded(NextModule.key)
    /\ ~ModuleRaises(NextModule.value)
    /\ module_begin_end_patterns' =
          Append(module_begin_end_patterns, ModuleBeginEndPattern(NextModule.key))
    /\ \E key_order, rerun_key_order \in Orders(FirstCharacters) :
          /\ commands_regex_pattern' = CommandsRegexPattern(NextModule.value, key_order)
          /\ module_repository_patterns' =
                Append(module_repository_patterns,
                       RepositoryEntry(NextModule.key, NextModule.value, key_order))
          /\ rerun_repository_patterns' =
                Append(rerun_repository_patterns,
                       RepositoryEntry(NextModule.key, NextModule.value, rerun_key_order))
    /\ modules_done' = modules_done + 1
    /\ UNCHANGED <<buildVars, loadVars, optVars, keywords_json, complete_grammar,
                   grammar_file>>
    /\ UNCHANGED tokVars

\* One iteration of the loop of build.py (the flat variant).
GenerateModuleFlat ==
    /\ build_pc = "generate"
    /\ variant = "flat"
    /\ modules_done < Len(keywords_by_module)
    /\ ~IsExcluded(NextModule.key)
    /\ ~ModuleRaises(NextModule.value)
    /\ module_begin_end_patterns' =
          Append(module_begin_end_patterns, ModuleBeginEndPattern(NextModule.key))
    /\ \E set_order, rerun_set_order \in Orders(CellStrings) :
          /\ module_repository_patterns' =
                Append(module_repository_patterns,
                       FlatRepositoryEntry(NextModule.key, NextModule.value, set_order))
          /\ rerun_repository_patterns' =
                Append(rerun_repository_patterns,
                       FlatRepositoryEntry(NextModule.key, NextModule.value, rerun_set_order))
    /\ modules_done' = modules_done + 1
    /\ UNCHANGED <<buildVars, loadVars, optVars, keywords_json, commands_regex_pattern,
                   complete_grammar, grammar_file>>
    /\ UNCHANGED tokVars

\* generate_grammar returns: `complete_grammar = ...`
GenerateGrammar ==
    /\ build_pc = "generate"
    /\ modules_done = Len(keywords_by_module)
    /\ complete_grammar' =
          [returned |-> TRUE,
           text |-> GrammarText(module_begin_end_patterns, module_repository_patterns)]
    /\ steps' = Append(steps, "generate")
    /\ build_pc' = "open"
    /\ UNCHANGED <<variant, error, loadVars, optVars, keywords_json, modules_done,
                   module_begin_end_patterns, module_repository_patterns,
                   commands_regex_pattern, rerun_repository_patterns, grammar_file>>
    /\ UNCHANGED tokVars

\* The grammar file opened while the grammar is still being generated.
OpenGrammarFileEarly ==
    /\ build_pc \in {"generate", "open"}
    /\ grammar_file = PreviousFile
    /\ grammar_file' = TruncatedFile
    /\ build_pc' = IF build_pc = "open" THEN "write" ELSE build_pc
    /\ UNCHANGED <<variant, error, steps, loadVars, optVars, keywords_json, modules_done,
                   module_begin_end_patterns, module_repository_patterns,
                   commands_regex_pattern, rerun_repository_patterns, complete_grammar>>
    /\ UNCHANGED tokVars

\* `with open('../grammars/sofistik.cson', 'w', ...)`: the file is truncated.
OpenGrammarFile ==
    /\ build_pc = "open"
    /\ grammar_file' = TruncatedFile
    /\ build_pc' = "write"
    /\ UNCHANGED <<variant, error, steps, loadVars, optVars, keywords_json, modules_done,
                   module_begin_end_patterns, module_repository_patterns,
                   commands_regex_pattern, rerun_repository_patterns, complete_grammar>>
    /\ UNCHANGED tokVars

\* `grammar_file.write(complete_grammar[1:] + '\n')`
WriteGrammarFile ==
    /\ build_pc = "write"
    /\ grammar_file' = WrittenFile(complete_grammar.text)
    /\ steps' = Append(steps, "write")
    /\ build_pc' = "done"
    /\ UNCHANGED <<variant, error, loadVars, optVars, keywords_json, modules_done,
                   module_begin_end_patterns, module_repository_patterns,
                   commands_regex_pattern, rerun_repository_patterns, complete_grammar>>
    /\ UNCHANGED tokVars

BuildInit ==
    /\ build_pc = "start"
    /\ variant \in {"scoped", "flat"}
    /\ error = "none"
    /\ steps = <<>>

BuildNext ==
    \/ LoadWorkbook
    \/ LoadWorkbookFails
    \/ BeginSheet
    \/ ReadCell
    \/ EndRow
    \/ EndSheet
    \/ ReturnKeywords
    \/ SaveKeywordsJson
    \/ SkipModule
    \/ GenerateModuleFails
    \/ GenerateModule
    \/ GenerateModuleFlat
    \/ GenerateGrammar
    \/ OpenGrammarFile
    \/ WriteGrammarFile

----------------------------------------------------------------------------
(* optimize_pattern applied to bounded keyword lists *)

\* The keywords: the non-empty strings over Alphabet of at most n characters.
Words(n) == UNION {StringsOfLen(Alphabet, k) : k \in 1..n}

\* The keyword lists of exactly n characters in all.
RECURSIVE ListsOfChars(_)
ListsOfChars(n) ==
    IF n = 0 THEN {<<>>}
    ELSE UNION {{<<w>> \o l : w \in StringsOfLen(Alphabet, k),
                               l \in ListsOfChars(n - k)} : k \in 1..n}

KeywordLists == UNION {ListsOfChars(n) : n \in 0..MaxChars}

Tokens == Words(MaxTokenLen)

\* Whether the token is a keyword of the list, compared case-insensitively.
InListIgnoringCase(t, list) ==
    \E i \in 1..Len(list) : Fold(list[i]) = Fold(t)

OptInit ==
    /\ arg_keyword_list \in KeywordLists
    /\ opt_pc = "call"
    /\ ret_pattern = <<>>
    /\ token = <<>>
    /\ whole_match = <<-1, -1>>
    /\ first_end = -1

OptIdle ==
    /\ arg_keyword_list = <<>>
    /\ opt_pc = "idle"
    /\ ret_pattern = <<>>
    /\ token = <<>>
    /\ whole_match = <<-1, -1>>
    /\ first_end = -1

\* The call optimize_pattern(keyword_list) returns.
OptimizePattern ==
    /\ opt_pc = "call"
    /\ \E iteration_order \in Orders(GroupKeys(arg_keyword_list)) :
          ret_pattern' = optimize_pattern_iterating(arg_keyword_list, iteration_order)
    /\ opt_pc' = "returned"
    /\ UNCHANGED <<arg_keyword_list, token, whole_match, first_end, loadVars, buildVars, genVars>>
    /\ UNCHANGED tokVars

\* The engine applies the returned pattern to a token: as the sub-keyword
\* match (?i)(?<!\w)(pattern)(?!\w), and as the bare alternation.
MatchToken ==
    /\ opt_pc = "returned"
    /\ arg_keyword_list # <<>>
    /\ \E t \in Tokens :
          /\ token' = t
          /\ whole_match' = WholeTokenSpan(ret_pattern, t, 0)
          /\ first_end' = FirstEnd(ret_pattern, t, 0)
    /\ opt_pc' = "matched"
    /\ UNCHANGED <<arg_keyword_list, ret_pattern, loadVars, buildVars, genVars>>
    /\ UNCHANGED tokVars

BuildIdle ==
    /\ build_pc = "idle"
    /\ variant = "scoped"
    /\ error = "none"
    /\ steps = <<>>

OptNext == OptimizePattern \/ MatchToken

----------------------------------------------------------------------------
(* The generated rules applied to a program text, line by line: the regexes *)
(* of build/build.py lines 112, 119, 155, 158 and 161, and the begin/end    *)
(* regions they are put in                                                  *)

PROG == <<"P", "R", "O", "G">>

\* The least element of a non-empty set of numbers.
Min(S) == CHOOSE x \in S : \A y \in S : x <= y

\* ` *` from offset j: the offset after the spaces.
RECURSIVE SkipSpaces(_, _)
SkipSpaces(line, j) ==
    IF j < Len(line) /\ line[j + 1] = " " THEN SkipSpaces(line, j + 1) ELSE j

\* A literal of a regex under (?i), tried at offset j: its end, or -1.
LiteralEnd(word, line, j) ==
    IF /\ j + Len(word) <= Len(line)
       /\ \A i \in 1..Len(word) : Upper(line[j + i]) = Upper(word[i])
    THEN j + Len(word)
    ELSE -1

\* `[\$\+-]?` at offset j: the offset after the marker, if there is one.
AfterMarker(line, j) ==
    IF j < Len(line) /\ line[j + 1] \in {"$", "+", "-"} THEN j + 1 ELSE j

\* `^ *[\$\+-]?PROG` on the line: its end, or -1.
ProgEnd(line) == LiteralEnd(PROG, line, AfterMarker(line, SkipSpaces(line, 0)))

\* The look-ahead without its \b, as build.py line 34 has it.
ProgAheadNoBoundary(line) == ProgEnd(line) >= 0

\* `(?=^ *[\$\+-]?PROG\b)` at the start of the line.
ProgAhead(line) ==
    LET e == ProgEnd(line)
    IN  e >= 0 /\ (e = Len(line) \/ ~IsWordChar(line[e + 1]))

\* `(?i)^ *([\$\+-]?PROG)( +{module_name})( .*)?$` on the line: the spans of
\* the match and of its captures 1 and 2, or NoMatch.
NoMatch == [start |-> -1, capture |-> -1, end |-> -1]

ModuleBegin(module_name, line) ==
    LET prog_start == SkipSpaces(line, 0)
        prog_end == ProgEnd(line)
        name_start == SkipSpaces(line, prog_end)
        name_end == LiteralEnd(module_name, line, name_start)
    IN  IF /\ prog_end >= 0
           /\ name_start > prog_end
           /\ name_end >= 0
           /\ (name_end = Len(line) \/ line[name_end + 1] = " ")
        THEN [start |-> 0, capture |-> prog_start, end |-> Len(line)]
        ELSE NoMatch

\* `(?=;|$| )` at offset e.
CommandLookahead(line, e) == e = Len(line) \/ line[e + 1] \in {";", " "}

\* `(?i)(?:^ *|; *)({command_name})(?=;|$| )` tried at offset p.
CommandBeginAt(command_name, line, p) ==
    LET at_line_start == IF p = 0 THEN SkipSpaces(line, 0) ELSE -1
        after_separator == IF p < Len(line) /\ line[p + 1] = ";"
                           THEN SkipSpaces(line, p + 1)
                           ELSE -1
        first == IF at_line_start >= 0
                 THEN LiteralEnd(command_name, line, at_line_start)
                 ELSE -1
        second == IF after_separator >= 0
                  THEN LiteralEnd(command_name, line, after_separator)
                  ELSE -1
    IN  IF first >= 0 /\ CommandLookahead(line, first)
        THEN [start |-> p, capture |-> at_line_start, end |-> first]
        ELSE IF second >= 0 /\ CommandLookahead(line, second)
        THEN [start |-> p, capture |-> after_separator, end |-> second]
        ELSE NoMatch

\* The same regex searched from offset pos on: its first match.
CommandBegin(command_name, line, pos) ==
    LET starts == {p \in pos..Len(line) : CommandBeginAt(command_name, line, p) # NoMatch}
    IN  IF starts = {} THEN NoMatch
        ELSE CommandBeginAt(command_name, line, Min(starts))

\* `(?i)(?=(?:^ *|; *)(?:{commands_regex_pattern})|;|^ *[\$\+-]?PROG\b)`
\* tried at offset p: the alternative that matches, "none" if none does.
CommandEndAt(commands_pattern, line, p) ==
    LET separator == p < Len(line) /\ line[p + 1] = ";"
    IN  IF \/ p = 0 /\ FirstEnd(commands_pattern, line, SkipSpaces(line, 0)) >= 0
           \/ separator /\ FirstEnd(commands_pattern, line, SkipSpaces(line, p + 1)) >= 0
        THEN "command"
        ELSE IF separator THEN "separator"
        ELSE IF p = 0 /\ ProgAhead(line) THEN "prog"
        ELSE "none"

\* The offsets, from pos on, where the end regex of a command region matches.
CommandEnds(commands_pattern, line, pos) ==
    {p \in pos..Len(line) : CommandEndAt(commands_pattern, line, p) # "none"}

\* An entry of the rule stack: the region of a module, or the region of a
\* command (rule is its index in the module's patterns) inside it; line is
\* the line of the text that opened it.
ModuleFrame(module_name, line_number) ==
    [kind |-> "module", module |-> module_name, command |-> <<>>, rule |-> 0,
     line |-> line_number]

CommandFrame(module_name, command_name, rule_index, line_number) ==
    [kind |-> "command", module |-> module_name, command |-> command_name,
     rule |-> rule_index, line |-> line_number]

\* A tag: the scope name given to the characters from + 1 .. to of the
\* line, by a rule of the module, inside the region of the command (<<>>:
\* outside any).
Tag(scope_name, from, to, module_name, command_name) ==
    [scope |-> scope_name, from |-> from, to |-> to, module |-> module_name,
     command |-> command_name]

\* `{'include': '#{module_name}'}`: the repository entry of that name.
Included(repository_patterns, module_name) ==
    LET i == CHOOSE i \in 1..Len(repository_patterns) :
                 repository_patterns[i].name = module_name
    IN  repository_patterns[i].patterns

\* The top of the stack is popped at offset p, by the alternative named.
Popped(s, p, by) ==
    [stack |-> SubSeq(s.stack, 1, Len(s.stack) - 1),
     pos |-> p,
     tags |-> s.tags,
     pops |-> Append(s.pops, [frame |-> s.stack[Len(s.stack)], pos |-> p, by |-> by])]

\* The rest of a line tokenized from the state s = [stack, pos, tags, pops].
\* At every offset the rules of the innermost open region are searched
\* together with its end; the match that starts first is taken, the end
\* before a rule and an earlier rule before a later one where they start
\* together.  The generic lexical rules (#normalText, #preprocessorDefine)
\* match nothing in the texts of TokLines.
RECURSIVE Scan(_, _, _, _, _)
Scan(begin_end_patterns, repository_patterns, line, line_number, s) ==
    IF s.stack = <<>>
    THEN \* top level: the module rules, lines 110-124
         LET opening == {i \in 1..Len(begin_end_patterns) :
                            /\ s.pos = 0
                            /\ ModuleBegin(begin_end_patterns[i].begin_module, line) # NoMatch}
         IN  IF opening = {} THEN s
             ELSE LET rule == begin_end_patterns[Min(opening)]
                      m == ModuleBegin(rule.begin_module, line)
                  IN  Scan(begin_end_patterns, repository_patterns, line, line_number,
                           [stack |-> <<ModuleFrame(rule.include, line_number)>>,
                            pos |-> m.end,
                            tags |-> Append(s.tags,
                                        Tag("support.class", m.capture, m.end,
                                            rule.include, <<>>)),
                            pops |-> s.pops])
    ELSE LET top == s.stack[Len(s.stack)]
             rules == Included(repository_patterns, top.module)
         IN  IF top.kind = "module"
             THEN \* inside a module: its end (line 119), then its command rules
                  IF s.pos = 0 /\ ProgAhead(line)
                  THEN Scan(begin_end_patterns, repository_patterns, line, line_number,
                            Popped(s, 0, "prog"))
                  ELSE LET found == {i \in 1..Len(rules) :
                                        CommandBegin(rules[i].command, line, s.pos) # NoMatch}
                           first_start == Min({CommandBegin(rules[i].command, line, s.pos).start :
                                                  i \in found})
                           rule_index == Min({i \in found :
                                                 CommandBegin(rules[i].command, line, s.pos).start
                                                     = first_start})
                           m == CommandBegin(rules[rule_index].command, line, s.pos)
                           tagged == Append(s.tags,
                                        Tag("keyword.control", m.capture, m.end,
                                            top.module, <<>>))
                       IN  IF found = {} THEN s
                           ELSE Scan(begin_end_patterns, repository_patterns, line, line_number,
                                     [stack |-> IF rules[rule_index].type = "begin_end"
                                                THEN Append(s.stack,
                                                        CommandFrame(top.module,
                                                                     rules[rule_index].command,
                                                                     rule_index, line_number))
                                                ELSE s.stack,
                                      pos |-> m.end,
                                      tags |-> tagged,
                                      pops |-> s.pops])
             ELSE \* inside a command: its end (line 158), then the sub-keyword
                  \* match (line 161)
                  LET rule == rules[top.rule]
                      ends == CommandEnds(rule.end_commands, line, s.pos)
                      span == WholeTokenSpan(rule.subkeywords, line, s.pos)
                  IN  IF ends # {} /\ (span[1] < 0 \/ Min(ends) <= span[1])
                      THEN Scan(begin_end_patterns, repository_patterns, line, line_number,
                                Popped(s, Min(ends),
                                       CommandEndAt(rule.end_commands, line, Min(ends))))
                      ELSE IF span[1] >= 0
                      THEN Scan(begin_end_patterns, repository_patterns, line, line_number,
                                [stack |-> s.stack,
                                 pos |-> span[2],
                                 tags |-> Append(s.tags,
                                             Tag("entity.name.function", span[1], span[2],
                                                 top.module, top.command)),
                                 pops |-> s.pops])
                      ELSE s

\* The lines of the program texts: PROG lines with and without a marker and
\* leading spaces, naming a module of the table or another one; a line
\* whose first token only starts with PROG; command lines, continuation
\* lines and lines with separators.
TokLines ==
    {PROG \o <<" ", "M">>,
     PROG \o <<" ", "N">>,
     <<"+">> \o PROG \o <<" ", "M">>,
     <<" ", "$">> \o PROG \o <<" ", "N">>,
     PROG \o <<" ", "X">>,
     PROG \o <<"X">>,
     <<"A", " ", "B">>,
     <<"A", "X", " ", "B">>,
     <<"A", "B", " ", "A">>,
     <<"A", " ", "A">>,
     <<" ", "b">>,
     <<"B">>,
     <<"A", " ", "B", ";", "B">>,
     <<"B", ";", "A", " ", "B", " ", "X">>}

\* The keyword tables the rules are generated from.
TokTables ==
    {<<[key |-> <<"M">>,
        value |-> <<[key |-> <<"A">>, value |-> << <<"B">> >>],
                    [key |-> <<"A", "B">>, value |-> << <<"A">> >>]>>],
       [key |-> <<"N">>,
        value |-> <<[key |-> <<"B">>, value |-> << <<"A">> >>]>>]>>,
     <<[key |-> <<"M">>,
        value |-> <<[key |-> <<"A">>, value |-> << <<"B">> >>],
                    [key |-> <<"B">>, value |-> <<>>]>>],
       [key |-> <<"N">>,
        value |-> <<[key |-> <<"A">>, value |-> << <<"A">>, <<"B">> >>]>>]>>}

TokIdle ==
    /\ tm_text = <<>>
    /\ tm_before = <<>>
    /\ tm_stack = <<>>
    /\ tm_tags = <<>>
    /\ tm_pops = <<>>

\* load_keywords has returned one of the tables: main is about to save it.
TokInit ==
    /\ keywords_by_module \in TokTables
    /\ sheets_read = [i \in 1..Len(keywords_by_module) |-> keywords_by_module[i].key]
    /\ column_index = 0
    /\ cells_read = 0
    /\ current_command_subkeywords = DetachedList(<<>>)
    /\ sheet_rows = <<>>
    /\ orphan_cells = <<>>
    /\ build_pc = "save"
    /\ variant = "scoped"
    /\ error = "none"
    /\ steps = <<"load">>

\* One more line of a text is tokenized with the grammar written to
\* grammars/sofistik.cson, from the rule stack the line before left.
FeedLine ==
    /\ grammar_file.state = "written"
    /\ Len(tm_text) < MaxLines
    /\ \E line \in TokLines :
          LET s == Scan(grammar_file.text.module_patterns,
                        grammar_file.text.repository_patterns,
                        line, Len(tm_text) + 1,
                        [stack |-> tm_stack, pos |-> 0, tags |-> <<>>, pops |-> <<>>])
          IN  /\ tm_text' = Append(tm_text, line)
              /\ tm_before' = tm_stack
              /\ tm_stack' = s.stack
              /\ tm_tags' = s.tags
              /\ tm_pops' = s.pops
    /\ UNCHANGED <<optVars, loadVars, buildVars, genVars>>

TokNext ==
    \/ SaveKeywordsJson
    \/ GenerateModule
    \/ GenerateGrammar
    \/ OpenGrammarFile
    \/ WriteGrammarFile
    \/ FeedLine

----------------------------------------------------------------------------
(* Specifications *)

\* optimize_pattern on every bounded keyword list, its result applied to
\* every bounded token.
OptStart == OptInit /\ LoadIdle /\ BuildIdle /\ GenIdle /\ TokIdle

SpecOpt == OptStart /\ [][OptNext]_vars

\* A run of the build, main() of build/build.py or the script build.py, on
\* every bounded workbook.
BuildStart == BuildInit /\ LoadIdle /\ GenIdle /\ OptIdle /\ TokIdle

SpecBuild == BuildStart /\ [][BuildNext]_vars

\* The build run on a keyword table, and the grammar it writes applied to
\* every bounded program text.
TokStart == TokInit /\ GenIdle /\ OptIdle /\ TokIdle

SpecTok == TokStart /\ [][TokNext]_vars


----------------------------------------------------------------------------
(* Claims about optimize_pattern *)

NoSpan == <<-1, -1>>

\* C1: the tokens the sub-keyword match (?i)(?<!\w)(optimize_pattern(L))(?!\w)
\* tags are exactly the keywords of L compared case-insensitively, and a
\* tagged token is tagged in full; in the single-group form and in the
\* multi-group form alike.
C1_MatchedTokensAreTheKeywords ==
    opt_pc = "matched" =>
        /\ (whole_match # NoSpan) <=> InListIgnoringCase(token, arg_keyword_list)
        /\ whole_match # NoSpan => whole_match = <<0, Len(token)>>

\* C1 (witness): a multi-group pattern whose factored group holds a
\* one-character keyword and two keywords that differ only in case, applied
\* to a keyword, which it tags in full.
C1_Witness ==
    /\ opt_pc = "matched"
    /\ Cardinality(GroupKeys(arg_keyword_list)) > 1
    /\ \E i, j \in 1..Len(arg_keyword_list) :
          /\ arg_keyword_list[i] # arg_keyword_list[j]
          /\ Fold(arg_keyword_list[i]) = Fold(arg_keyword_list[j])
          /\ Len(arg_keyword_list[i]) = 1
          /\ Fold(token) = Fold(arg_keyword_list[i])
    /\ \E k \in 1..Len(ret_pattern) : ret_pattern[k] = "(?:"
    /\ whole_match = <<0, Len(token)>>

\* C2: when the list holds K and K' with K a proper prefix of K', the
\* alternation applied to the text K' stops first at the end of K' (the
\* longer alternative, or the longer suffix, is tried before K), and the
\* sub-keyword match tags K' as one token.
C2_LongerKeywordIsTriedFirst ==
    (/\ opt_pc = "matched"
     /\ \E i, j \in 1..Len(arg_keyword_list) :
           /\ arg_keyword_list[j] = token
           /\ ProperPrefix(arg_keyword_list[i], token))
    => /\ first_end = Len(token)
       /\ whole_match = <<0, Len(token)>>

\* C2 (witness): the sub-keywords {A, AB, B} and the text AB: AB is matched
\* in full, inside the first-character group of A, whose other suffix is the
\* empty one.
C2_Witness ==
    /\ opt_pc = "matched"
    /\ arg_keyword_list = << <<"A">>, <<"A", "B">>, <<"B">> >>
    /\ token = <<"A", "B">>
    /\ first_end = 2
    /\ whole_match = <<0, 2>>

----------------------------------------------------------------------------
(* Claims about the build: table construction *)

\* The populated cells of rows in reading order, each with its column.
RECURSIVE PopulatedOfRow(_, _)
PopulatedOfRow(row, col) ==
    IF row = <<>> THEN <<>>
    ELSE (IF Head(row) = NoneCell \/ Head(row) = EmptyString
          THEN <<>>
          ELSE <<[col |-> col, value |-> Head(row)]>>)
         \o PopulatedOfRow(Tail(row), col + 1)

RECURSIVE PopulatedCells(_)
PopulatedCells(rows) ==
    IF rows = <<>> THEN <<>>
    ELSE PopulatedOfRow(Head(rows), 0) \o PopulatedCells(Tail(rows))

\* The table of the sheet being read.
ModuleKeywords == keywords_by_module[Len(keywords_by_module)].value

\* The steps that follow the return of load_keywords.
AfterLoad == {"save", "generate", "open", "write", "done"}

\* C6 (as claimed): once a populated cell of a later column was read before
\* any command cell of its sheet, the build fails: no table is returned and
\* nothing is written.
C6_OrphanCellAbortsTheBuild ==
    orphan_cells # <<>> =>
        /\ build_pc \notin AfterLoad
        /\ ~keywords_json.written
        /\ grammar_file = PreviousFile

\* C6 (amended): such a cell raises nothing.  While no command cell of the
\* sheet was read, every populated cell goes to a list no command holds, the
\* table of the module stays empty, and the run ends only by the errors the
\* scripts can raise.
C6_OrphanCellsAreDropped ==
    /\ error \in {"none", "FileNotFoundError", "TypeError"}
    /\ (build_pc = "cells" /\ \A i \in 1..Len(PopulatedCells(sheet_rows)) :
                                  PopulatedCells(sheet_rows)[i].col # 0)
       => /\ ModuleKeywords = <<>>
          /\ ~current_command_subkeywords.attached
          /\ current_command_subkeywords.list =
                [i \in 1..Len(PopulatedCells(sheet_rows)) |->
                    PopulatedCells(sheet_rows)[i].value]

\* C6 (witness): a sub-keyword cell was read before any command cell, and
\* the build wrote the grammar all the same.
C6_Witness ==
    /\ orphan_cells # <<>>
    /\ build_pc = "done"
    /\ grammar_file = WrittenFile(complete_grammar.text)
    /\ error = "none"

\* The fold of the claim C7: the first populated cell of a row starts a
\* command, the later populated cells of the row are appended to it.
RECURSIVE ClaimedRowFold(_, _, _)
ClaimedRowFold(dict, current, row) ==
    IF row = <<>> THEN [dict |-> dict, current |-> current]
    ELSE IF Head(row) = NoneCell \/ Head(row) = EmptyString
         THEN ClaimedRowFold(dict, current, Tail(row))
    ELSE IF current = NoneCell
         THEN ClaimedRowFold(DictSet(dict, Head(row), <<>>), Head(row), Tail(row))
    ELSE ClaimedRowFold(
             [dict EXCEPT ![IndexOf(dict, current)].value = Append(@, Head(row))],
             current, Tail(row))

\* ... over the rows: a new row has no populated cell yet; a row without
\* one leaves the current command of the row before to no later cell.
RECURSIVE ClaimedFold(_, _)
ClaimedFold(dict, rows) ==
    IF rows = <<>> THEN dict
    ELSE ClaimedFold(ClaimedRowFold(dict, NoneCell, Head(rows)).dict, Tail(rows))

\* C7 (as claimed): the table of a sheet is the fold in which the first
\* populated cell of each row, whatever its column, starts a new command.
C7_TableIsTheFirstPopulatedCellFold ==
    build_pc = "cells" => ModuleKeywords = ClaimedFold(<<>>, sheet_rows)

\* C7 (amended): only a populated cell of column 0 starts a command.  The
\* commands of the table are the column-0 cells in the order of their first
\* occurrence; the list of a command holds, in order, the populated cells
\* of other columns read after its last occurrence and before the next
\* column-0 cell, on whatever row; None and empty cells change nothing.
C7_TableIsTheColumnZeroFold ==
    build_pc = "cells" =>
        LET cells == PopulatedCells(sheet_rows)
            Commands == {p \in 1..Len(cells) : cells[p].col = 0}
            First == {p \in Commands :
                        \A q \in Commands : q < p => cells[q].value # cells[p].value}
            LastOf(k) == CHOOSE p \in Commands :
                            /\ cells[p].value = k
                            /\ \A q \in Commands : cells[q].value = k => q <= p
            NextAfter(p) == IF \E q \in Commands : q > p
                            THEN CHOOSE q \in Commands :
                                    q > p /\ \A r \in Commands : r > p => q <= r
                            ELSE Len(cells) + 1
        IN  /\ Len(ModuleKeywords) = Cardinality(First)
            /\ \A p \in First :
                  ModuleKeywords[Cardinality({q \in First : q <= p})].key = cells[p].value
            /\ \A i \in 1..Len(ModuleKeywords) :
                  LET p == LastOf(ModuleKeywords[i].key)
                  IN  ModuleKeywords[i].value =
                         [j \in 1..(NextAfter(p) - p - 1) |-> cells[p + j].value]

\* C7 (witness): a row whose first populated cell is not in column 0: the
\* cell was appended to the command of the row before.
C7_Witness ==
    /\ build_pc = "cells"
    /\ Len(sheet_rows) = 2
    /\ Len(sheet_rows[2]) = 2
    /\ IsSkipped(sheet_rows[2][1])
    /\ ~IsSkipped(sheet_rows[2][2])
    /\ Len(ModuleKeywords) = 1
    /\ ModuleKeywords[1].value = <<sheet_rows[2][2]>>

----------------------------------------------------------------------------
(* Claims about the build: generation and the order of the steps *)

\* The modules iterated so far that are not named BASIC, in table order.
GeneratedModules ==
    SelectSeq(SubSeq(keywords_by_module, 1, modules_done),
              LAMBDA m : m.key # <<"B", "A", "S", "I", "C">>)

\* The tokens a sub-keyword pattern is tried on in the claims below.
ProbeTokens == CellStrings \cup {<<"A", "B">>, <<"a">>, <<"B", "A">>}

\* C3: optimize_pattern([]) is the empty string (the commands pattern of a
\* module without commands), a command with an empty sub-keyword list gets
\* a direct match rule and nothing else, and a command with a non-empty list
\* gets a begin/end region whose sub-keyword match tags exactly the
\* keywords of that command's own list.
C3_RuleShapeFollowsTheSubkeywordList ==
    (variant = "scoped" /\ build_pc \in {"generate", "open", "write", "done"}) =>
        /\ Len(module_repository_patterns) = Len(GeneratedModules)
        /\ \A j \in 1..Len(GeneratedModules) :
              LET commands == GeneratedModules[j].value
                  rules == module_repository_patterns[j].patterns
              IN  /\ Len(rules) = Len(commands)
                  /\ \A i \in 1..Len(commands) :
                        IF commands[i].value = <<>>
                        THEN rules[i] = [type |-> "match", command |-> commands[i].key]
                        ELSE /\ rules[i].type = "begin_end"
                             /\ rules[i].command = commands[i].key
                             /\ \A t \in ProbeTokens :
                                   (WholeTokenSpan(rules[i].subkeywords, t, 0) # NoSpan)
                                   <=> InListIgnoringCase(t, commands[i].value)
        /\ (/\ Len(GeneratedModules) > 0
            /\ GeneratedModules[Len(GeneratedModules)].value = <<>>)
           => commands_regex_pattern = <<>>

\* C3 (witness): a module with a command that has a sub-keyword and a
\* command that has none was generated, then a module without commands.
C3_Witness ==
    /\ variant = "scoped"
    /\ build_pc = "done"
    /\ Len(GeneratedModules) = 2
    /\ Len(GeneratedModules[1].value) = 2
    /\ GeneratedModules[1].value[1].value # <<>>
    /\ GeneratedModules[1].value[2].value = <<>>
    /\ module_repository_patterns[1].patterns[1].type = "begin_end"
    /\ module_repository_patterns[1].patterns[2].type = "match"
    /\ GeneratedModules[2].value = <<>>
    /\ commands_regex_pattern = <<>>

\* Whether s is a prefix of t.
IsPrefix(s, t) == Len(s) <= Len(t) /\ SubSeq(t, 1, Len(s)) = s

\* C8: the steps run in the order load, save, generate, write; the grammar
\* file is opened only once the whole workbook is read and the grammar text
\* is complete; a run that fails in loading or generating leaves the file
\* as it was.
C8_GrammarFileIsOpenedLast ==
    /\ IsPrefix(steps, <<"load", "save", "generate", "write">>)
    /\ grammar_file # PreviousFile =>
          /\ build_pc \in {"write", "done"}
          /\ IsPrefix(<<"load", "save", "generate">>, steps)
          /\ modules_done = Len(keywords_by_module)
          /\ complete_grammar.returned
          /\ complete_grammar.text =
                GrammarText(module_begin_end_patterns, module_repository_patterns)
    /\ build_pc = "failed" => grammar_file = PreviousFile
    /\ build_pc = "done" => grammar_file = WrittenFile(complete_grammar.text)

\* C8 (witness): generation raised after the table was saved; the grammar
\* file was never opened.
C8_Witness ==
    /\ build_pc = "failed"
    /\ error = "TypeError"
    /\ steps = <<"load", "save">>
    /\ keywords_json = [written |-> TRUE, data |-> keywords_by_module]
    /\ grammar_file = PreviousFile

\* The names of the modules of the table that are not BASIC, in table order.
ModulesButBasic ==
    SelectSeq(DictKeys(keywords_by_module), LAMBDA n : n # <<"B", "A", "S", "I", "C">>)

\* C9: the grammar holds one region rule and one repository entry for every
\* module but BASIC, both in table order, none for BASIC whatever it holds,
\* and the region rule of a module includes the entry of that module.
C9_OneRulePerModuleButBasic ==
    build_pc \in {"open", "write", "done"} =>
        LET regions == complete_grammar.text.module_patterns
            entries == complete_grammar.text.repository_patterns
        IN  /\ [i \in 1..Len(regions) |-> regions[i].begin_module] = ModulesButBasic
            /\ [i \in 1..Len(entries) |-> entries[i].name] = ModulesButBasic
            /\ \A i \in 1..Len(regions) :
                  /\ regions[i].include = entries[i].name
                  /\ regions[i].include = regions[i].begin_module

\* C9 (witness): BASIC holds a command and stands between two other modules;
\* the grammar holds the two, in their order.
C9_Witness ==
    /\ build_pc = "done"
    /\ Len(keywords_by_module) = 3
    /\ keywords_by_module[2].key = <<"B", "A", "S", "I", "C">>
    /\ keywords_by_module[2].value # <<>>
    /\ Len(complete_grammar.text.module_patterns) = 2
    /\ complete_grammar.text.module_patterns[1].begin_module = keywords_by_module[1].key
    /\ complete_grammar.text.repository_patterns[2].name = keywords_by_module[3].key

\* C10: a second run over the same table, whose sets and dicts iterate in
\* another order, generates the same repository entries, so the same text.
C10_SecondRunGeneratesTheSameText ==
    /\ rerun_repository_patterns = module_repository_patterns
    /\ build_pc = "done" =>
          grammar_file =
             WrittenFile(GrammarText(module_begin_end_patterns, rerun_repository_patterns))

\* C10 (witness): the flat variant generated a module with two commands of
\* one length, which the set of commands hands out in either order.
C10_Witness ==
    /\ build_pc = "done"
    /\ variant = "flat"
    /\ Len(module_repository_patterns) = 1
    /\ module_repository_patterns[1].cmds_pattern = <<"A", "|", "B">>
    /\ rerun_repository_patterns[1].cmds_pattern = <<"A", "|", "B">>

----------------------------------------------------------------------------
(* Claims about the rules applied to a text *)

\* The token of a line that starts at offset j: up to the next space or
\* separator.
RECURSIVE TokenFrom(_, _)
TokenFrom(line, j) ==
    IF j >= Len(line) \/ line[j + 1] \in {" ", ";"} THEN <<>>
    ELSE <<line[j + 1]>> \o TokenFrom(line, j + 1)

FirstToken(line) == TokenFrom(line, SkipSpaces(line, 0))

\* A PROG line: its first token is PROG, with or without a marker.
IsProgLine(line) ==
    LET t == FirstToken(line)
    IN  \/ Fold(t) = PROG
        \/ t # <<>> /\ Head(t) \in {"$", "+", "-"} /\ Fold(Tail(t)) = PROG

\* The number of the last PROG line of a text, 0 if it has none.
LastProgLine(text) ==
    LET prog_lines == {i \in 1..Len(text) : IsProgLine(text[i])}
    IN  IF prog_lines = {} THEN 0
        ELSE CHOOSE i \in prog_lines : \A j \in prog_lines : j <= i

LastLine == tm_text[Len(tm_text)]

ModuleFrames(stack) == SelectSeq(stack, LAMBDA frame : frame.kind = "module")

CommandsOf(module_name) ==
    keywords_by_module[IndexOf(keywords_by_module, module_name)].value

SubkeywordsOf(module_name, command_name) ==
    CommandsOf(module_name)[IndexOf(CommandsOf(module_name), command_name)].value

\* The boundaries of a command region, as the claim lists them: (a) a
\* command of the module at line start or after a separator, (b) a
\* separator, (c) a PROG line.
IsBoundary(module_name, line, p) ==
    \/ p < Len(line) /\ line[p + 1] = ";"
    \/ p = 0 /\ IsProgLine(line)
    \/ p = 0 /\ FirstToken(line) # <<>>
             /\ InListIgnoringCase(FirstToken(line), DictKeys(CommandsOf(module_name)))

Boundaries(module_name, line) ==
    {p \in 0..Len(line) : IsBoundary(module_name, line, p)}

\* C5, tags: a token is tagged as a sub-keyword only inside a command
\* region, and only if it is, as a whole token and ignoring case, a
\* sub-keyword of that command.
C5_TaggedTokensAreSubkeywordsOfTheOpenCommand ==
    \A i \in 1..Len(tm_tags) :
        tm_tags[i].scope = "entity.name.function" =>
            /\ tm_tags[i].command # <<>>
            /\ InListIgnoringCase(SubSeq(LastLine, tm_tags[i].from + 1, tm_tags[i].to),
                                  SubkeywordsOf(tm_tags[i].module, tm_tags[i].command))
            /\ tm_tags[i].from = 0 \/ ~IsWordChar(LastLine[tm_tags[i].from])
            /\ tm_tags[i].to = Len(LastLine) \/ ~IsWordChar(LastLine[tm_tags[i].to + 1])

\* C5, region: a command region is ended only at a boundary, and the region
\* a line finds open stays open until the first boundary of the line.
C5_RegionStaysOpenUntilTheFirstBoundary ==
    tm_text # <<>> =>
       /\ \A i \in 1..Len(tm_pops) :
             tm_pops[i].frame.kind = "command" =>
                 IsBoundary(tm_pops[i].frame.module, LastLine, tm_pops[i].pos)
       /\ (tm_before # <<>> /\ tm_before[Len(tm_before)].kind = "command") =>
             LET open == tm_before[Len(tm_before)]
             IN  IF Boundaries(open.module, LastLine) = {}
                 THEN tm_stack = tm_before
                 ELSE /\ tm_pops # <<>>
                      /\ tm_pops[1].frame = open
                      /\ tm_pops[1].pos = Min(Boundaries(open.module, LastLine))

\* C5: in the rules generated for a module, sub-keyword highlighting is
\* confined to the command that introduced it: only whole-token matches of
\* the open command's own sub-keywords are tagged, and the region stays
\* open across lines until the first of (a) a command of the module, (b) a
\* separator, (c) a PROG line.
C5_SubkeywordsAreConfinedToTheirCommand ==
    /\ C5_TaggedTokensAreSubkeywordsOfTheOpenCommand
    /\ C5_RegionStaysOpenUntilTheFirstBoundary

\* A continuation line that starts with a token that only begins with a
\* command name ends the region of the command: no boundary is there.
C5_Witness ==
    /\ tm_text # <<>>
    /\ tm_before # <<>>
    /\ tm_before[Len(tm_before)].kind = "command"
    /\ Boundaries(tm_before[Len(tm_before)].module, LastLine) = {}
    /\ tm_pops # <<>>
    /\ tm_pops[1].by = "command"
    /\ Len(tm_stack) = 1

\* Where the command token starts when the end of a command region matched
\* by its commands alternative at offset p: after the spaces at line start,
\* or after the separator at p and its spaces.
CommandTokenStarts(line, p) ==
    (IF p = 0 THEN {SkipSpaces(line, 0)} ELSE {})
    \cup (IF p < Len(line) /\ line[p + 1] = ";" THEN {SkipSpaces(line, p + 1)} ELSE {})

\* A command rule of the module was applied to the token that starts at
\* offset start of the last line, and the token is a command of the module.
CommandActivatedAt(module_name, start) ==
    /\ TokenFrom(LastLine, start) # <<>>
    /\ InListIgnoringCase(TokenFrom(LastLine, start), DictKeys(CommandsOf(module_name)))
    /\ \E i \in 1..Len(tm_tags) :
          /\ tm_tags[i].scope = "keyword.control"
          /\ tm_tags[i].module = module_name
          /\ tm_tags[i].from = start

\* C11: whenever a command region of a module is ended because its end
\* recognised a command of the module at some offset, a command rule of the
\* module is applied at that offset (the region of the new command is
\* opened, or the command without sub-keywords is tagged); a token that
\* only begins with a command name never ends the region.
C11_CommandEndActivatesACommand ==
    tm_text # <<>> =>
        \A i \in 1..Len(tm_pops) :
            (tm_pops[i].frame.kind = "command" /\ tm_pops[i].by = "command") =>
                \E start \in CommandTokenStarts(LastLine, tm_pops[i].pos) :
                    CommandActivatedAt(tm_pops[i].frame.module, start)

\* A line that starts with a command while the region of another command is
\* open: the region is ended at offset 0 and the new command's is opened.
C11_Witness ==
    /\ tm_text # <<>>
    /\ tm_before # <<>>
    /\ tm_before[Len(tm_before)].kind = "command"
    /\ tm_pops # <<>>
    /\ tm_pops[1].by = "command"
    /\ tm_pops[1].pos = 0
    /\ CommandActivatedAt(tm_pops[1].frame.module, SkipSpaces(LastLine, 0))
    /\ Len(tm_stack) = 2
    /\ tm_stack[2].kind = "command"
    /\ tm_stack[2].command # tm_before[Len(tm_before)].command

----------------------------------------------------------------------------
(* Claims about the lists of the table while it is built *)

\* The command open after the rows read so far of a sheet: the last
\* populated cell of column 0, NoneCell if there is none yet.
OpenCommand(rows) ==
    LET command_cells == SelectSeq(PopulatedCells(rows), LAMBDA cell : cell.col = 0)
    IN  IF command_cells = <<>> THEN NoneCell
        ELSE command_cells[Len(command_cells)].value

\* The populated cells of the later columns read after the last populated
\* cell of column 0.
RECURSIVE CellsSinceCommand(_)
CellsSinceCommand(cells) ==
    IF cells = <<>> \/ cells[Len(cells)].col = 0 THEN <<>>
    ELSE Append(CellsSinceCommand(SubSeq(cells, 1, Len(cells) - 1)),
                cells[Len(cells)].value)

\* C12: in every step of the table construction at most one list changes,
\* and it is a list of the sheet being read: the list of the command open
\* in that sheet grows by the cell just read, or the list of the command
\* whose cell was just read (again, if the name is repeated) is set empty.
\* No list of an earlier command and no list of another module's sheet
\* changes, no sheet and no command is removed, and the list of the open
\* command holds exactly the cells read since its last command cell.
C12_OnlyTheOpenCommandOfTheSheetGrows ==
    [][/\ Len(keywords_by_module') >= Len(keywords_by_module)
       /\ \A m \in 1..Len(keywords_by_module) :
             LET old_module == keywords_by_module[m]
                 new_module == keywords_by_module'[m]
                 current_sheet == build_pc = "cells" /\ m = Len(keywords_by_module)
             IN  /\ new_module.key = old_module.key
                 /\ Len(new_module.value) >= Len(old_module.value)
                 /\ \A k \in 1..Len(old_module.value) :
                       LET old == old_module.value[k]
                           new == new_module.value[k]
                       IN  /\ new.key = old.key
                           /\ \/ new.value = old.value
                              \/ /\ current_sheet
                                 /\ column_index > 0
                                 /\ old.key = OpenCommand(sheet_rows)
                                 /\ new.value = Append(old.value,
                                        sheet_rows'[Len(sheet_rows')][column_index + 1])
                              \/ /\ current_sheet
                                 /\ column_index = 0
                                 /\ new.key = sheet_rows'[Len(sheet_rows')][1]
                                 /\ new.value = <<>>
       /\ (build_pc' = "cells" /\ OpenCommand(sheet_rows') # NoneCell) =>
             LET commands == keywords_by_module'[Len(keywords_by_module')].value
             IN  commands[IndexOf(commands, OpenCommand(sheet_rows'))].value
                    = CellsSinceCommand(PopulatedCells(sheet_rows'))
      ]_vars

\* A sub-keyword cell read in the second sheet before any command cell of
\* it, after the first sheet ended with a command open: the list of that
\* command is as the first sheet left it.
C12_Witness ==
    /\ build_pc = "cells"
    /\ Len(keywords_by_module) = 2
    /\ Len(keywords_by_module[1].value) = 1
    /\ keywords_by_module[1].value[1].value = <<>>
    /\ keywords_by_module[2].value = <<>>
    /\ orphan_cells # <<>>
    /\ PopulatedCells(sheet_rows) # <<>>
    /\ OpenCommand(sheet_rows) = NoneCell

============================================================================
